---- MODULE Spec2Model ----
(***************************************************************************)
(* The lead pipeline of the autonomous healthcare agent, in its two        *)
(* variants: the REST variant (autonomous-agent.js) and the MCP variant    *)
(* (the TypeScript-MCP server with its shared session map mcpClients).     *)
(* One step of the model is the code a request handler runs between two    *)
(* await points.                                                           *)
(***************************************************************************)
EXTENDS Integers, Sequences, FiniteSets, TLC

VARIABLES
    variant,     \* which server is running: "rest" or "mcp"
    mcpClients,  \* this.mcpClients: provider name -> the request whose client is stored (0: no entry)
    client,      \* the Client objects: client[r][p] is the one request r created for provider p
    req,         \* per request: the handler's frame (locals and position)
    hist,        \* per request: what the handler has done so far (history, read by the properties only)
    discovery,   \* the discovery phase in detail: the call that is building its payload, and the payloads returned
    server,      \* the process: its environment, how far the constructor has come, whether it listens
    names        \* the name helpers in detail: the host they were called with and what they returned

vars == <<variant, mcpClients, client, req, hist, discovery, server, names>>

----------------------------------------------------------------------------
(* Bounds of the model *)

NumTargets == 3      \* entries of healthcareTargets that are modelled
MaxCount == 4        \* largest "count" a request carries (the smallest is -1)
FineSteps == 60      \* Math.random() returns one of 0/FineSteps .. (FineSteps-1)/FineSteps
CoarseSteps == 3     \* the same, where two discoveries are compared
MaxBodyLen == 2      \* longest middle part of a host the name helpers are called with
MaxUrls == 2         \* longest urls array a /process-urls request carries
MaxPad == 26         \* longest run of letters put in front of a host's middle part
MaxCalls == 2        \* calls of the voice and storage phase functions that are compared
MaxClock == 2        \* the clock values Date.now() passes through on its own

----------------------------------------------------------------------------
(* Program constants *)

NumElevenLabsProviders == 3
ScoreSpan == 30
ScoreBase == 70
MaxIdLen == 25

\* the providers list of connectElevenLabsMCP
ElevenLabsProviders ==
    <<"@elevenlabs/elevenlabs-mcp", "@elevenlabs/mcp-server", "elevenlabs-voice-mcp">>

\* a request and one that overlaps it
Reqs == {1, 2}
Providers == {"railway", "playwright", "elevenlabs", "notion"}
Variants == {"rest", "mcp"}
FivePhases == {"discover", "store", "voice", "provision", "deploy"}
Counts == -1..MaxCount

\* this.healthcareTargets; a URL is its position in the list, 0 is a string
\* that new URL() rejects (it can only come from a request body)
healthcareTargets == [k \in 1..NumTargets |-> k]
BodyUrls == {0, 1}
Parseable(url) == url >= 1

Min(a, b) == IF a < b THEN a ELSE b
Max(a, b) == IF a > b THEN a ELSE b

\* Array.prototype.slice(0, end)
Slice(s, end) ==
    LET e == IF end < 0 THEN Max(Len(s) + end, 0) ELSE Min(end, Len(s))
    IN  SubSeq(s, 1, e)

\* the routes each server registers that start a pipeline or touch the sessions
Endpoints(v) ==
    IF v = "mcp"
    THEN {"create-leads", "test-playwright", "test-elevenlabs", "test-notion"}
    ELSE {"create-leads"}

----------------------------------------------------------------------------
(* processHealthcareWebsite: the order of the awaited phase calls *)

PhaseOrder(v) ==
    IF v = "mcp"
    THEN <<"discover", "provision", "deploy", "voice", "store">>
    ELSE <<"discover", "store", "voice", "provision", "deploy", "update">>

\* the single phase function a test endpoint calls
TestPhase(k) ==
    CASE k = "test-playwright" -> <<"discover">>
      [] k = "test-elevenlabs" -> <<"voice">>
      [] k = "test-notion"     -> <<"store">>
      [] OTHER                 -> <<>>

\* the session a phase function of the MCP variant looks up in this.mcpClients
SessionOf(ph) ==
    CASE ph = "discover" -> "playwright"
      [] ph = "deploy"   -> "railway"
      [] ph = "store"    -> "notion"
      [] OTHER           -> "none"

\* What one phase call can end in. "real": the provider answered with a usable
\* payload; "fallback": the phase substituted a synthesized result after the
\* provider was absent or failed; "simulated": the phase never calls a
\* provider; "absorbed": an error logged as a warning, no result needed;
\* "provider"/"internal": the phase throws (a provider error, or a fault that
\* is no provider's: an unparseable URL, the local template copy, a TypeError).
\* "malformed" (MCP discovery): the page content parsed as JSON and its
\* services value has a length but is no array; the phase returns it as it
\* came (scrapedData.services?.length > 0 ? scrapedData.services : [...]).
\* services says what the practice data handed to the voice phase holds:
\* createVoiceAgentMCP calls practiceData.services.join inside its try and
\* again in the fallback block after the catch.
PhaseOutcomes(v, ph, usable, url, services) ==
    IF v = "mcp" THEN
        CASE ph = "discover"  -> IF ~Parseable(url) THEN {"internal"}
                                 ELSE IF usable THEN {"real", "malformed", "fallback"}
                                 ELSE {"fallback"}
          [] ph = "provision" -> {"real", "provider", "internal"}
          [] ph = "deploy"    -> IF usable THEN {"real", "fallback"} ELSE {"fallback"}
          [] ph = "voice"     -> IF services = "array" THEN {"real", "fallback"}
                                 ELSE {"internal"}
          [] ph = "store"     -> IF usable THEN {"real", "fallback"} ELSE {"fallback"}
          [] OTHER            -> {}
    ELSE
        CASE ph = "discover"  -> IF ~Parseable(url) THEN {"internal"} ELSE {"simulated"}
          [] ph = "store"     -> {"real", "provider"}
          [] ph = "voice"     -> {"simulated"}
          [] ph = "provision" -> {"real", "provider", "internal"}
          [] ph = "deploy"    -> {"simulated"}
          [] ph = "update"    -> {"real", "absorbed"}
          [] OTHER            -> {}

Faults == {"provider", "internal"}

\* whether the outcome shows that a provider answered a call: a real payload,
\* or a repository created before the local template copy failed
ProviderAnswered(ph, o) ==
    o \in {"real", "malformed"} \/ (ph = "provision" /\ o = "internal")

\* which return of the phase an outcome is: a malformed payload leaves by
\* the return of the real path
Provenance(o) == IF o = "malformed" THEN "real" ELSE o

\* The provenance a phase result states about itself, in leadSource
\* (discovery) or method (deployment, voice, storage). MCP variant:
\* 'playwright-mcp-scraping', 'railway-mcp', 'elevenlabs_direct_api',
\* 'notion-mcp' on the return after the provider's answer, 'fallback-analysis',
\* 'fallback', 'fallback_enhanced' on the fallback return; the repository
\* has no such field. REST variant: the mock data of scrapeHealthcareWebsite
\* says leadSource: 'web-scraping'; no other result has such a field.
Tag(v, ph, o) ==
    IF v = "mcp"
    THEN IF ph \in {"discover", "deploy", "voice", "store"}
         THEN (IF o = "real" THEN "real" ELSE "fallback")
         ELSE "none"
    ELSE IF ph = "discover" THEN "real" ELSE "none"

\* What a phase call leaves in the Notion database. REST variant:
\* storeLeadInNotion creates the page with 'Agent ID': 'pending' and
\* 'Demo URL': null, updateNotionWithResults patches both in. MCP variant:
\* storeLeadInNotionMCP creates the page with the Demo URL among its
\* properties and no property for the voice agent; there is no update.
\* A call that did not get the provider's answer leaves nothing.
CrmWrites(v, ph, o) ==
    IF o # "real" THEN {}
    ELSE IF v = "rest" /\ ph = "store" THEN {"page"}
    ELSE IF v = "rest" /\ ph = "update" THEN {"demoUrl", "agentId"}
    ELSE IF v = "mcp" /\ ph = "store" THEN {"page", "demoUrl"}
    ELSE {}

----------------------------------------------------------------------------
(* The process: dotenv.config(), new Agent(), agent.start() *)

\* the environment variables the constructor reads with
\* process.env.X || this.throwMissingEnvError('X'), in the order it reads them
Required(v) ==
    IF v = "mcp"
    THEN <<"SMITHERY_API_KEY", "SMITHERY_PROFILE", "GITHUB_TOKEN", "RAILWAY_TOKEN",
           "NOTION_DATABASE_ID", "ELEVENLABS_API_KEY">>
    ELSE <<"GITHUB_TOKEN", "RAILWAY_TOKEN", "NOTION_API_KEY", "NOTION_DATABASE_ID",
           "ELEVENLABS_API_KEY", "OPENROUTER_API_KEY", "ELEVENLABS_AGENT_ID">>

EnvVars == UNION {{Required(v)[k] : k \in 1..Len(Required(v))} : v \in Variants}

\* a variable of process.env is not there, is the empty string, or has a value
EnvValues == {"absent", "empty", "set"}

\* faulty variant: only an absent variable counts as missing (?? for ||)
Falsy_OnlyAbsent(val) == val = "absent"

\* the left side of || is falsy: undefined or ''
Falsy(val) == val # "set"

\* the server as the requests find it: constructed with every variable set, listening
Listening(v) ==
    [env |-> [x \in EnvVars |-> "set"], pc |-> "listening",
     read |-> Len(Required(v)), error |-> "none", now |-> 0]

----------------------------------------------------------------------------
(* Frames *)

NoRun ==
    [url |-> 0, order |-> <<>>, idx |-> 0, inProgress |-> {}, trace |-> <<>>,
     prov |-> <<>>, outputs |-> {}, handle |-> 0, fault |-> "none",
     services |-> "array"]

NewRun(url, order) == [NoRun EXCEPT !.url = url, !.order = order]

NoResponse == [code |-> 0, completed |-> 0, records |-> 0]

IdleFrame ==
    [kind |-> "none", pc |-> "idle", count |-> 0, selectedUrls |-> <<>>,
     pending |-> {}, connOk |-> {}, elTry |-> 0, elTried |-> <<>>, elReturn |-> "none",
     elAbandoned |-> {}, elLate |-> {}, urls |-> "none", i |-> 0, results |-> <<>>,
     run |-> NoRun, snap |-> [p \in Providers |-> 0], response |-> NoResponse,
     disconnects |-> 0]

\* no discovery call is running, no payload is held
NoDiscovery ==
    [pc |-> "idle", url |-> 0, page |-> "none", firstName |-> 0, lastName |-> 0,
     returned |-> <<>>]

\* no name helper has been called
NoNames ==
    [host |-> <<>>, calls |-> 0, company |-> <<>>, again |-> <<>>,
     practiceId |-> <<>>, deploys |-> <<>>, voices |-> <<>>, stores |-> <<>>]

NoHist ==
    [connects |-> 0, sleeps |-> 0, loopCatch |-> 0,
     provOk |-> FALSE, attempted |-> <<>>, startedAt |-> <<>>]

Init ==
    /\ variant \in Variants
    /\ mcpClients = [p \in Providers |-> 0]
    /\ client = [r \in Reqs |-> [p \in Providers |-> "none"]]
    /\ req = [r \in Reqs |-> IdleFrame]
    /\ hist = [r \in Reqs |-> NoHist]
    /\ discovery = NoDiscovery
    /\ server = Listening(variant)
    /\ names = NoNames

----------------------------------------------------------------------------
(* processHealthcareWebsite: from a finished run to what the caller gets *)

\* the record fields each phase's payload fills in
OutputOf(ph) ==
    CASE ph = "discover"  -> {"company"}
      [] ph = "store"     -> {"notionPageId"}
      [] ph = "voice"     -> {"voiceAgentId"}
      [] ph = "provision" -> {"repositoryUrl"}
      [] ph = "deploy"    -> {"demoUrl"}
      [] OTHER            -> {}

AllOutputs == UNION {OutputOf(ph) : ph \in FivePhases}

Returned(run) == {run.order[j] : j \in 1..run.idx}

\* the object built after the last await of the try block
SuccessRecord(run) ==
    [url |-> run.url, status |-> "success", outputs |-> run.outputs,
     error |-> FALSE, duration |-> TRUE, leadId |-> TRUE,
     leadSource |-> IF variant = "mcp" THEN Tag(variant, "discover", run.prov[1]) ELSE "none",
     returned |-> Returned(run), fault |-> "none"]

\* faulty variant: the catch block leaves the elapsed time out
FailedRecord_NoDuration(run) ==
    [url |-> run.url, status |-> "failed", outputs |-> {},
     error |-> TRUE, duration |-> FALSE, leadId |-> TRUE,
     leadSource |-> "none", returned |-> Returned(run), fault |-> run.fault]

\* the object built in the catch block
FailedRecord(run) ==
    [url |-> run.url, status |-> "failed", outputs |-> {},
     error |-> TRUE, duration |-> TRUE, leadId |-> TRUE,
     leadSource |-> "none", returned |-> Returned(run), fault |-> run.fault]

\* the object the batch loop's own catch pushes
LoopCatchRecord(run) ==
    [url |-> run.url, status |-> "failed", outputs |-> {},
     error |-> TRUE, duration |-> FALSE, leadId |-> FALSE,
     leadSource |-> "none", returned |-> Returned(run), fault |-> run.fault]

\* faulty variant: the result is built without awaiting the last phase
RunOver_BeforeLastPhase(run) == run.fault # "none" \/ run.idx >= Len(run.order) - 1

\* faulty variant: a thrown error does not end the run
RunOver_IgnoresFault(run) == run.idx = Len(run.order)

\* the run is over: every phase has returned, or one has thrown
RunOver(run) == run.fault # "none" \/ run.idx = Len(run.order)

\* faulty variant: the catch block returns the outputs gathered so far
ExecutorResult_KeepsPartial(run) ==
    [raised |-> FALSE,
     rec |-> [SuccessRecord(run) EXCEPT
                !.status = IF run.fault = "none" THEN "success" ELSE "failed",
                !.error = run.fault # "none", !.fault = run.fault]]

\* faulty variant: the catch block rethrows
ExecutorResult_Rethrows(run) ==
    [raised |-> run.fault # "none",
     rec |-> IF run.fault = "none" THEN SuccessRecord(run) ELSE FailedRecord(run)]

\* try { ...phases...; return success } catch (error) { return failed }
ExecutorResult(run) ==
    [raised |-> FALSE,
     rec |-> IF run.fault = "none" THEN SuccessRecord(run) ELSE FailedRecord(run)]

----------------------------------------------------------------------------
(* executeAutonomousWorkflow: the Target loop *)

Successful(results) == Cardinality({j \in 1..Len(results) : results[j].status = "success"})
Failed(results) == Cardinality({j \in 1..Len(results) : results[j].status = "failed"})

\* faulty variant: completed counts every record
BatchResponse_CountsAll(results) ==
    [code |-> 200, completed |-> Len(results), records |-> Len(results)]

\* res.json({success: true, requested, completed, results})
BatchResponse(results) ==
    [code |-> 200, completed |-> Successful(results), records |-> Len(results)]

\* /process-urls: res.json({success: true, processed: urls.length, results})
UrlsResponse(urls, results) ==
    [code |-> 200, completed |-> Len(urls), records |-> Len(results)]

\* the handler is over: executeAutonomousWorkflow returns its results and
\* the route answers; a test route has answered before its finally block
Finish(f) ==
    IF f.kind = "create-leads"
    THEN [f EXCEPT !.pc = "done", !.response = BatchResponse(f.results)]
    ELSE IF f.kind = "process-urls"
    THEN [f EXCEPT !.pc = "done", !.response = UrlsResponse(f.selectedUrls, f.results)]
    ELSE [f EXCEPT !.pc = "done"]

\* disconnectAllMCPs is entered: Object.entries(this.mcpClients) is taken.
\* With no entry there is nothing to await: the map is reset (it is empty
\* already) and the handler goes on at once. (disconnects counts the calls,
\* for the properties.)
EnterDisconnect(f) ==
    IF \A p \in Providers : mcpClients[p] = 0
    THEN Finish([f EXCEPT !.disconnects = @ + 1])
    ELSE [f EXCEPT !.pc = "disconnecting", !.snap = mcpClients, !.disconnects = @ + 1]

\* faulty variant: the loop ends at the first failed record
LoopCondition_StopsOnFailure(i, urls, results) ==
    i < Len(urls) /\ \A j \in 1..Len(results) : results[j].status # "failed"

\* faulty variant: the loop is left before the last Target
LoopCondition_SkipsLast(i, urls, results) == i < Len(urls) - 1

\* for (let i = 0; i < selectedUrls.length; i++)
LoopCondition(i, urls, results) == i < Len(urls)

\* faulty variant: the loop sleeps after the final Target as well
SleepsAfter_Always(i, urls) == TRUE

\* if (i < selectedUrls.length - 1) await this.sleep(3000)
SleepsAfter(i, urls) == i < Len(urls) - 1

\* faulty variant: the sessions are released after each Target
AfterPipeline_DisconnectsEach(f, res) ==
    IF variant = "mcp"
    THEN EnterDisconnect([f EXCEPT !.results = Append(@, res.rec)])
    ELSE [f EXCEPT !.results = Append(@, res.rec), !.i = @ + 1, !.pc = "loop"]

\* faulty variant: the record is put at the head of the results
AfterPipeline_Unshifts(f, res) ==
    IF SleepsAfter(f.i, f.selectedUrls)
    THEN [f EXCEPT !.results = <<res.rec>> \o @, !.pc = "sleeping"]
    ELSE [f EXCEPT !.results = <<res.rec>> \o @, !.i = @ + 1, !.pc = "loop"]

\* the body of the loop after processHealthcareWebsite has settled
AfterPipeline(f, res) ==
    IF res.raised
    THEN [f EXCEPT !.results = Append(@, LoopCatchRecord(f.run)),
                   !.i = @ + 1, !.pc = "loop"]
    ELSE IF SleepsAfter(f.i, f.selectedUrls)
         THEN [f EXCEPT !.results = Append(@, res.rec), !.pc = "sleeping"]
         ELSE [f EXCEPT !.results = Append(@, res.rec), !.i = @ + 1, !.pc = "loop"]

\* faulty variant: /process-urls stops at the first failed record
AfterUrl_StopsOnFailure(f, res) ==
    IF res.raised \/ res.rec.status = "failed"
    THEN [f EXCEPT !.pc = "done", !.response = [NoResponse EXCEPT !.code = 500]]
    ELSE [f EXCEPT !.results = Append(@, res.rec), !.i = @ + 1, !.pc = "loop"]

\* /process-urls, the body of for (const url of urls) after
\* processHealthcareWebsite has settled: results.push(result), no delay; an
\* error it raised would be answered 500 by the catch of the route
AfterUrl(f, res) ==
    IF res.raised
    THEN [f EXCEPT !.pc = "done", !.response = [NoResponse EXCEPT !.code = 500]]
    ELSE [f EXCEPT !.results = Append(@, res.rec), !.i = @ + 1, !.pc = "loop"]

\* faulty variant: the sessions are released on the all-success path only
LeaveLoop_NoFinally(f) ==
    IF variant = "mcp" /\ Failed(f.results) = 0
    THEN EnterDisconnect(f)
    ELSE Finish(f)

\* the loop is left: the MCP variant runs its finally block, the REST
\* variant has no sessions and returns the results
LeaveLoop(f) ==
    IF variant = "mcp"
    THEN EnterDisconnect(f)
    ELSE Finish(f)

\* the history of request r after its frame went from f0 to f1
Note(h, f0, f1, ok, raised) ==
    [h EXCEPT !.sleeps = IF f0.pc # "sleeping" /\ f1.pc = "sleeping" THEN @ + 1 ELSE @,
              !.loopCatch = IF raised THEN @ + 1 ELSE @,
              !.provOk = @ \/ ok]

Step(r, f1, ok, raised) ==
    /\ req' = [req EXCEPT ![r] = f1]
    /\ hist' = [hist EXCEPT ![r] = Note(@, req[r], f1, ok, raised)]

----------------------------------------------------------------------------
(* The request handlers, one action per stretch of code between awaits *)

\* faulty variant: the list is walked from its end
NextProvider_Reversed(tried) == ElevenLabsProviders[Len(ElevenLabsProviders) - Len(tried)]

\* for (const provider of providers): the candidate after those tried
NextProvider(tried) == ElevenLabsProviders[Len(tried) + 1]

\* connectAllMCPs is called: the four connects are started together, the
\* ElevenLabs one with its first candidate
EnterConnect(f) ==
    [f EXCEPT !.pc = "connecting", !.pending = Providers, !.connOk = {}, !.elTry = 0,
              !.elTried = <<NextProvider(<<>>)>>, !.elReturn = "none"]

\* connectElevenLabsMCP: the race of the current candidate is lost (its
\* connect rejected, or its timer fired first): the catch logs and the loop
\* goes on to the next candidate; after the last one it returns false
ElevenLabsFails(f) ==
    IF f.elTry + 1 < NumElevenLabsProviders
    THEN [f EXCEPT !.elTry = @ + 1, !.elTried = Append(@, NextProvider(@))]
    ELSE [f EXCEPT !.pending = @ \ {"elevenlabs"}, !.elTry = 0, !.elReturn = "false"]

\* res.status(503).json(...) inside try: the finally block still runs
Refuse(f) == EnterDisconnect([f EXCEPT !.response = [NoResponse EXCEPT !.code = 503]])

\* A request arrives. /create-leads reads count from the body and slices
\* the target list; /test-playwright reads url and checks the session map
\* before it connects.
Receive(r, k, c, u) ==
    /\ server.pc = "listening"
    /\ req[r].pc = "idle"
    /\ k \in Endpoints(variant)
    /\ k = "create-leads" \/ c = 0
    /\ k = "test-playwright" \/ u = 1
    /\ LET f0 == [req[r] EXCEPT
                    !.kind = k, !.count = c,
                    !.selectedUrls = IF k = "create-leads"
                                     THEN Slice(healthcareTargets, c) ELSE <<>>,
                    !.run = IF k = "create-leads" THEN NoRun ELSE NewRun(u, TestPhase(k))]
           f1 == IF variant = "rest" THEN [f0 EXCEPT !.pc = "loop"]
                 ELSE IF k = "test-playwright" /\ mcpClients["playwright"] = 0
                      THEN Refuse(f0)
                      ELSE EnterConnect(f0)
       IN  /\ req' = [req EXCEPT ![r] = f1]
           /\ hist' = [hist EXCEPT ![r] =
                         [Note(@, req[r], f1, FALSE, FALSE) EXCEPT
                            !.connects = IF f1.pc = "connecting" THEN @ + 1 ELSE @]]
    /\ UNCHANGED <<variant, mcpClients, client, discovery, server, names>>

\* the negation of !urls || !Array.isArray(urls)
UrlsAccepted(shape) == shape = "array"

\* POST /process-urls arrives (REST server). The urls field of the body is
\* missing (or another falsy value), a value that is no array, or an array.
ReceiveUrls(r, shape, urls) ==
    /\ server.pc = "listening"
    /\ req[r].pc = "idle"
    /\ variant = "rest"
    /\ shape = "array" \/ urls = <<>>
    /\ LET f0 == [req[r] EXCEPT !.kind = "process-urls", !.urls = shape]
           f1 == IF UrlsAccepted(shape)
                 THEN [f0 EXCEPT !.selectedUrls = urls, !.pc = "loop", !.i = 0]
                 ELSE [f0 EXCEPT !.pc = "done", !.response = [NoResponse EXCEPT !.code = 400]]
       IN  Step(r, f1, FALSE, FALSE)
    /\ UNCHANGED <<variant, mcpClients, client, discovery, server, names>>

\* One connect settles. connectMCP, connectPlaywrightMCP and connectNotionMCP
\* store the client on success and return false on an error;
\* connectElevenLabsMCP goes on to its next candidate provider on an error
\* or timeout and returns false after the last one.
ConnectSettle(r, p, ok) ==
    /\ req[r].pc = "connecting"
    /\ p \in req[r].pending
    /\ IF ok
       THEN /\ client' = [client EXCEPT ![r][p] = "open"]
            /\ mcpClients' = [mcpClients EXCEPT ![p] = r]
            /\ Step(r, [req[r] EXCEPT !.pending = @ \ {p}, !.connOk = @ \cup {p},
                                       !.elTry = IF p = "elevenlabs" THEN 0 ELSE @,
                                       !.elReturn = IF p = "elevenlabs" THEN "true" ELSE @],
                    TRUE, FALSE)
       ELSE /\ UNCHANGED <<client, mcpClients>>
            /\ IF p = "elevenlabs"
               THEN Step(r, ElevenLabsFails(req[r]), FALSE, FALSE)
               ELSE Step(r, [req[r] EXCEPT !.pending = @ \ {p}], FALSE, FALSE)
    /\ UNCHANGED <<variant, discovery, server, names>>

\* connectElevenLabsMCP: the timer of the current candidate fires before its
\* connect settles. The loop goes on as after an error; the connect of the
\* abandoned client is still in flight.
ConnectTimeout(r) ==
    /\ req[r].pc = "connecting"
    /\ "elevenlabs" \in req[r].pending
    /\ LET c == req[r].elTried[Len(req[r].elTried)] IN
       Step(r, [ElevenLabsFails(req[r]) EXCEPT !.elAbandoned = @ \cup {c}], FALSE, FALSE)
    /\ UNCHANGED <<variant, mcpClients, client, discovery, server, names>>

\* the connect of an abandoned client completes while the batch is still
\* running: the client is connected, and no variable refers to it
LateConnect(r, c) ==
    /\ req[r].pc \notin {"idle", "done"}
    /\ c \in req[r].elAbandoned
    /\ Step(r, [req[r] EXCEPT !.elAbandoned = @ \ {c}, !.elLate = @ \cup {c}], FALSE, FALSE)
    /\ UNCHANGED <<variant, mcpClients, client, discovery, server, names>>

\* the connect of an abandoned client is rejected
LateFail(r, c) ==
    /\ req[r].pc \notin {"idle", "done"}
    /\ c \in req[r].elAbandoned
    /\ Step(r, [req[r] EXCEPT !.elAbandoned = @ \ {c}], FALSE, FALSE)
    /\ UNCHANGED <<variant, mcpClients, client, discovery, server, names>>

\* faulty variant: connectAllMCPs returns true only with all four connected
ConnectAllReturns_NeedsAll(connOk) == connOk = Providers

\* return successful > 0
ConnectAllReturns(connOk) == connOk # {}

\* Promise.allSettled resolves; connectAllMCPs returns successful > 0.
\* The batch goes on whatever it returns, a test endpoint answers 503 on false.
ConnectAllDone(r) ==
    /\ req[r].pc = "connecting"
    /\ req[r].pending = {}
    /\ LET f == req[r]
           connected == ConnectAllReturns(f.connOk)
           f0 == [f EXCEPT !.connOk = {}, !.elTried = <<>>, !.elReturn = "none"]
       IN  Step(r,
                IF f.kind = "create-leads" THEN [f0 EXCEPT !.pc = "loop", !.i = 0]
                ELSE IF ~connected THEN Refuse(f0)
                ELSE [f0 EXCEPT !.pc = "pipeline"],
                FALSE, FALSE)
    /\ UNCHANGED <<variant, mcpClients, client, discovery, server, names>>

\* faulty variant: processHealthcareWebsite is called without await, the
\* loop goes on while the run is in progress
LoopReady_NoAwait(f) == f.pc \in {"loop", "pipeline"}

\* await this.processHealthcareWebsite(url), await this.sleep(3000): the loop
\* is at its head only when the call and the delay of the iteration before
\* have settled
LoopReady(f) == f.pc = "loop"

\* The head of the Target loop: the next Target's pipeline run is started
\* (processHealthcareWebsite reads Date.now() for its leadId: startedAt keeps
\* the value), or the loop is left.
LoopNext(r) ==
    /\ LoopReady(req[r])
    /\ LET f == req[r] IN
       IF LoopCondition(f.i, f.selectedUrls, f.results)
       THEN /\ req' = [req EXCEPT ![r] =
                         [f EXCEPT !.pc = "pipeline",
                                   !.run = NewRun(f.selectedUrls[f.i + 1], PhaseOrder(variant))]]
            /\ hist' = [hist EXCEPT ![r].attempted = Append(@, f.selectedUrls[f.i + 1]),
                                     ![r].startedAt = Append(@, server.now)]
       ELSE Step(r, LeaveLoop(f), FALSE, FALSE)
    /\ UNCHANGED <<variant, mcpClients, client, discovery, server, names>>

\* faulty variant: a phase is called without awaiting the previous one
MayStart_NoAwait(run) == TRUE

\* await: the next phase is called only when the previous call has settled
MayStart(run) == run.inProgress = {}

\* A phase function is called; the MCP phases read their session handle first.
PhaseStart(r) ==
    /\ req[r].pc = "pipeline"
    /\ LET run == req[r].run IN
       /\ ~RunOver(run)
       /\ MayStart(run)
       /\ Len(run.trace) < Len(run.order)
       /\ LET ph == run.order[Len(run.trace) + 1]
              h == IF variant = "mcp" /\ SessionOf(ph) \in Providers
                   THEN mcpClients[SessionOf(ph)] ELSE 0
          IN  req' = [req EXCEPT ![r].run =
                        [run EXCEPT !.inProgress = @ \cup {ph},
                                    !.trace = Append(@, ph), !.handle = h]]
    /\ UNCHANGED <<variant, mcpClients, client, hist, discovery, server, names>>

\* A phase call settles with outcome o. A result is kept and the next phase
\* may start; a thrown error ends the run. When the run is over, the batch
\* loop takes the record (and starts its delay), a test endpoint answers.
PhaseReturn(r, ph, o) ==
    /\ req[r].pc = "pipeline"
    /\ ph \in req[r].run.inProgress
    /\ LET f == req[r]
           run == f.run
           usable == run.handle # 0 /\ client[run.handle][SessionOf(ph)] = "open"
       IN
       /\ o \in PhaseOutcomes(variant, ph, usable, run.url, run.services)
       /\ LET run1 == IF o \in Faults
                      THEN [run EXCEPT !.fault = o, !.inProgress = {}, !.handle = 0]
                      ELSE [run EXCEPT !.idx = @ + 1, !.prov = Append(@, Provenance(o)),
                                       !.services = IF o = "malformed" THEN "other" ELSE @,
                                       !.outputs = @ \cup OutputOf(ph),
                                       !.inProgress = @ \ {ph}, !.handle = 0]
              f1 == [f EXCEPT !.run = run1]
              res == ExecutorResult(run1)
          IN  IF ~RunOver(run1) THEN Step(r, f1, ProviderAnswered(ph, o), FALSE)
              ELSE IF f.kind = "create-leads"
                   THEN Step(r, AfterPipeline(f1, res), ProviderAnswered(ph, o), res.raised)
                   ELSE IF f.kind = "process-urls"
                   THEN Step(r, AfterUrl(f1, res), ProviderAnswered(ph, o), FALSE)
                   ELSE Step(r, EnterDisconnect(
                                   [f1 EXCEPT !.response =
                                      [NoResponse EXCEPT
                                         !.code = IF run1.fault = "none" THEN 200 ELSE 500]]),
                             ProviderAnswered(ph, o), FALSE)
    /\ UNCHANGED <<variant, mcpClients, client, discovery, server, names>>

\* the inter-Target delay is over: i++. The timer of sleep(3000) has run:
\* Date.now() gives a later value than before the delay.
SleepDone(r) ==
    /\ req[r].pc = "sleeping"
    /\ Step(r, [req[r] EXCEPT !.i = @ + 1, !.pc = "loop"], FALSE, FALSE)
    /\ server' = [server EXCEPT !.now = @ + 1]
    /\ UNCHANGED <<variant, mcpClients, client, discovery, names>>

\* a millisecond passes while the handlers wait for a provider; a call that
\* fails at once (new URL() on a malformed string) lets none pass
Tick ==
    /\ server.pc = "listening"
    /\ server.now < MaxClock
    /\ server' = [server EXCEPT !.now = @ + 1]
    /\ UNCHANGED <<variant, mcpClients, client, req, hist, discovery, names>>

\* faulty variant: an error thrown by close() ends the loop over the entries
AfterClose_StopsOnError(snap, p, ok) ==
    IF ok THEN [snap EXCEPT ![p] = 0] ELSE [q \in Providers |-> 0]

\* the entries still to be closed after close() on the entry of p returned
\* or threw: the catch is inside the loop body, the loop goes on
AfterClose(snap, p, ok) == [snap EXCEPT ![p] = 0]

\* disconnectAllMCPs: close() on one entry of the snapshot (an error thrown
\* by close is caught and logged)
DisconnectClose(r, p, ok) ==
    /\ req[r].pc = "disconnecting"
    /\ req[r].snap[p] # 0
    /\ client' = [client EXCEPT ![req[r].snap[p]][p] = IF ok THEN "closed" ELSE "closeFailed"]
    /\ req' = [req EXCEPT ![r].snap = AfterClose(@, p, ok)]
    /\ UNCHANGED <<variant, mcpClients, hist, discovery, server, names>>

\* faulty variant: the closed clients stay in the map
MapAfterDisconnect_KeepsEntries(map) == map

\* this.mcpClients = {}
MapAfterDisconnect(map) == [p \in Providers |-> 0]

\* disconnectAllMCPs: this.mcpClients = {}; the handler then finishes
DisconnectEnd(r) ==
    /\ req[r].pc = "disconnecting"
    /\ \A p \in Providers : req[r].snap[p] = 0
    /\ mcpClients' = MapAfterDisconnect(mcpClients)
    /\ Step(r, Finish(req[r]), FALSE, FALSE)
    /\ UNCHANGED <<variant, client, discovery, server, names>>

AllEndpoints == Endpoints("rest") \cup Endpoints("mcp")

\* what a handler does after its request has arrived (a close() that throws
\* is logged and nothing else: SpecLate follows it)
Handler(r) ==
    \/ ConnectAllDone(r)
    \/ LoopNext(r)
    \/ PhaseStart(r)
    \/ \E ph \in FivePhases \cup {"update"}, o \in {"real", "malformed", "fallback", "simulated", "absorbed"} \cup Faults :
          PhaseReturn(r, ph, o)
    \/ SleepDone(r)
    \/ \E p \in Providers : DisconnectClose(r, p, TRUE)
    \/ DisconnectEnd(r)

\* one request at a time, to either server
Next ==
    \/ \E k \in AllEndpoints, c \in Counts, u \in BodyUrls : Receive(1, k, c, u)
    \/ \E p \in Providers, ok \in BOOLEAN : ConnectSettle(1, p, ok)
    \/ Handler(1)

Spec == Init /\ [][Next]_vars

\* every await of the one request eventually settles
FairSpec == Spec /\ WF_vars(Next)

\* The MCP server with two requests that overlap: a /create-leads batch of
\* one or two Targets and a request to one of the test endpoints, each running
\* between the other's awaits, while the Playwright and Notion servers can
\* be reached and the Railway and ElevenLabs servers are down.
TestEndpoints == {"test-playwright", "test-elevenlabs", "test-notion"}
ConcCounts == {1, 2}
ConcUp == {"playwright", "notion"}

InitConc == Init /\ variant = "mcp"

NextConc ==
    \/ \E c \in ConcCounts : Receive(1, "create-leads", c, 1)
    \/ \E k \in TestEndpoints, u \in BodyUrls : Receive(2, k, 0, u)
    \/ \E r \in Reqs, p \in Providers, ok \in BOOLEAN :
          (ok => p \in ConcUp) /\ ConnectSettle(r, p, ok)
    \/ Handler(1)
    \/ Handler(2)

SpecConc == InitConc /\ [][NextConc]_vars

\* The REST server with one /process-urls request. The entries of urls are
\* Targets or strings that new URL() rejects.
UrlShapes == {"missing", "notArray", "array"}
UrlEntries == {0, 1}

RECURSIVE UrlLists(_)
UrlLists(n) ==
    IF n = 0 THEN {<<>>}
    ELSE UrlLists(n - 1) \cup {Append(l, u) : l \in {x \in UrlLists(n - 1) : Len(x) = n - 1},
                                               u \in UrlEntries}

InitUrls == Init /\ variant = "rest"

NextUrls ==
    \/ \E shape \in UrlShapes, urls \in UrlLists(MaxUrls) : ReceiveUrls(1, shape, urls)
    \/ LoopNext(1)
    \/ PhaseStart(1)
    \/ \E ph \in FivePhases \cup {"update"}, o \in {"real", "simulated", "absorbed"} \cup Faults :
          PhaseReturn(1, ph, o)

SpecUrls == InitUrls /\ [][NextUrls]_vars

\* The REST server with a /create-leads batch or a /process-urls request,
\* a second /process-urls request that overlaps it (one malformed URL: its
\* run ends in the discovery phase), and the clock.
NextLeadIds ==
    \/ \E c \in ConcCounts : Receive(1, "create-leads", c, 1)
    \/ \E urls \in UrlLists(MaxUrls) : ReceiveUrls(1, "array", urls)
    \/ ReceiveUrls(2, "array", <<0>>)
    \/ \E r \in Reqs : LoopNext(r)
    \/ \E r \in Reqs : PhaseStart(r)
    \/ \E r \in Reqs, ph \in FivePhases \cup {"update"},
          o \in {"real", "simulated", "absorbed"} \cup Faults : PhaseReturn(r, ph, o)
    \/ SleepDone(1)
    \/ Tick

SpecLeadIds == InitUrls /\ [][NextLeadIds]_vars

\* The MCP server with one batch of one or two Targets, where the timers of
\* connectElevenLabsMCP can fire, the connects they abandon settle later, and
\* close() can throw.
LateCounts == {1, 2}

NextLate ==
    \/ \E c \in LateCounts : Receive(1, "create-leads", c, 1)
    \/ \E p \in Providers, ok \in BOOLEAN : ConnectSettle(1, p, ok)
    \/ ConnectTimeout(1)
    \/ \E p \in Providers : DisconnectClose(1, p, FALSE)
    \/ \E c \in {ElevenLabsProviders[k] : k \in 1..NumElevenLabsProviders} : LateConnect(1, c)
    \/ \E c \in {ElevenLabsProviders[k] : k \in 1..NumElevenLabsProviders} : LateFail(1, c)
    \/ Handler(1)

SpecLate == InitConc /\ [][NextLate]_vars

----------------------------------------------------------------------------
(* The name helpers in detail. A string is the sequence of its characters. *)

LowerCase == <<"a", "b", "c", "d", "e", "f", "g", "h", "i", "j", "k", "l", "m", "n", "o", "p", "q", "r", "s", "t", "u", "v", "w", "x", "y", "z">>
UpperCase == <<"A", "B", "C", "D", "E", "F", "G", "H", "I", "J", "K", "L", "M", "N", "O", "P", "Q", "R", "S", "T", "U", "V", "W", "X", "Y", "Z">>

\* String.prototype.toUpperCase on one character of a host
ToUpperCase(c) ==
    IF \E k \in 1..Len(LowerCase) : LowerCase[k] = c
    THEN UpperCase[CHOOSE k \in 1..Len(LowerCase) : LowerCase[k] = c]
    ELSE c

StartsWith(s, p) == Len(p) <= Len(s) /\ SubSeq(s, 1, Len(p)) = p
EndsWith(s, p) == Len(p) <= Len(s) /\ SubSeq(s, Len(s) - Len(p) + 1, Len(s)) = p

\* .replace(/^www\./, '')
StripWww(s) ==
    IF StartsWith(s, <<"w", "w", "w", ".">>) THEN SubSeq(s, 5, Len(s)) ELSE s

\* the alternatives of /\.(com|co\.uk|org|net)$/
Suffixes == {<<".", "c", "o", "m">>, <<".", "c", "o", ".", "u", "k">>, <<".", "o", "r", "g">>, <<".", "n", "e", "t">>}

\* .replace(/\.(com|co\.uk|org|net)$/, ''): no string ends with two of the
\* alternatives, so the one that matches at the end is removed
StripSuffix(s) ==
    IF \E x \in Suffixes : EndsWith(s, x)
    THEN LET x == CHOOSE y \in Suffixes : EndsWith(s, y)
         IN  SubSeq(s, 1, Len(s) - Len(x))
    ELSE s

Separators == {"-", "."}

\* .split(/[-.]/g): the pieces between the separators, the empty ones included
RECURSIVE Split(_)
Split(s) ==
    IF \E k \in 1..Len(s) : s[k] \in Separators
    THEN LET k == CHOOSE j \in 1..Len(s) :
                      s[j] \in Separators /\ \A h \in 1..(j - 1) : s[h] \notin Separators
         IN  <<SubSeq(s, 1, k - 1)>> \o Split(SubSeq(s, k + 1, Len(s)))
    ELSE <<s>>

\* faulty variant: the word is left as it is
Capitalize_Not(word) == word

\* word.charAt(0).toUpperCase() + word.slice(1)
Capitalize(word) ==
    IF word = <<>> THEN <<>> ELSE <<ToUpperCase(word[1])>> \o SubSeq(word, 2, Len(word))

\* .join(' ')
RECURSIVE Join(_)
Join(words) ==
    IF Len(words) = 0 THEN <<>>
    ELSE IF Len(words) = 1 THEN words[1]
    ELSE words[1] \o <<" ">> \o Join(Tail(words))

\* extractCompanyFromDomain(domain)
extractCompanyFromDomain(domain) ==
    LET words == Split(StripSuffix(StripWww(domain)))
    IN  Join([k \in 1..Len(words) |-> Capitalize(words[k])]) \o <<" ", "C", "l", "i", "n", "i", "c">>

Digits == {"0", "1", "2", "3", "4", "5", "6", "7", "8", "9"}

\* String.prototype.toLowerCase on one character of a host
ToLowerCase(c) ==
    IF \E k \in 1..Len(UpperCase) : UpperCase[k] = c
    THEN LowerCase[CHOOSE k \in 1..Len(UpperCase) : UpperCase[k] = c]
    ELSE c

\* .replace(/[^a-z0-9]/g, '-')
Hyphenate(s) ==
    [k \in 1..Len(s) |->
        IF s[k] \in Digits \/ (\E j \in 1..Len(LowerCase) : LowerCase[j] = s[k])
        THEN s[k] ELSE "-"]

\* .replace(/-+/g, '-')
RECURSIVE Collapse(_)
Collapse(s) ==
    IF Len(s) <= 1 THEN s
    ELSE IF s[1] = "-" /\ s[2] = "-" THEN Collapse(Tail(s))
    ELSE <<s[1]>> \o Collapse(Tail(s))

\* .replace(/^-|-$/g, ''): a hyphen at the start and one at the end
TrimHyphens(s) ==
    LET a == IF s # <<>> /\ s[1] = "-" THEN Tail(s) ELSE s
    IN  IF a # <<>> /\ a[Len(a)] = "-" THEN SubSeq(a, 1, Len(a) - 1) ELSE a

\* .substring(0, n)
Substring(s, n) == SubSeq(s, 1, Min(n, Len(s)))

\* generatePracticeId(domain)
generatePracticeId(domain) ==
    LET stripped == StripSuffix(StripWww(domain))
        lower == [k \in 1..Len(stripped) |-> ToLowerCase(stripped[k])]
    IN  Substring(TrimHyphens(Collapse(Hyphenate(lower))), MaxIdLen)

\* new URL(url).hostname of the entries of this.healthcareTargets
TargetHosts ==
    <<<<"w", "w", "w", ".", "t", "h", "e", "p", "r", "i", "v", "a", "t", "e", "c", "l", "i", "n", "i", "c", ".", "c", "o", ".", "u", "k">>,
      <<"w", "w", "w", ".", "h", "a", "r", "l", "e", "y", "s", "t", "r", "e", "e", "t", "s", "k", "i", "n", "c", "l", "i", "n", "i", "c", ".", "c", "o", "m">>,
      <<"w", "w", "w", ".", "1", "5", "2", "h", "a", "r", "l", "e", "y", "s", "t", "r", "e", "e", "t", ".", "c", "o", "m">>,
      <<"w", "w", "w", ".", "e", "a", "c", "l", "i", "n", "i", "c", ".", "c", "o", ".", "u", "k">>,
      <<"h", "a", "r", "l", "e", "y", "c", "l", "i", "n", "i", "c", ".", "c", "o", "m">>>>

HostOf(url) == TargetHosts[url]

----------------------------------------------------------------------------
(* The discovery phase in detail: analyzeHealthcareWebsite and
   scrapeHealthcareWebsite build their payload with three calls of
   Math.random(), two in generateDoctorName and one for the lead score. *)

\* what the Playwright session gives for a Target: no usable answer (no
\* session, an error, a failed navigation, unparseable content), or the
\* page's content with an empty or a non-empty title
Pages == {"unreachable", "untitled", "titled"}

\* firstNames.length, lastNames.length
NumNames(v) == IF v = "mcp" THEN 6 ELSE 8

\* Math.floor(Math.random() * n), for the k-th of the values Math.random()
\* can return at a resolution of steps values in [0, 1)
FloorRandomTimes(k, steps, n) == (k * n) \div steps

\* faulty variant: Math.round in place of Math.floor
LeadScore_Rounds(k, steps) == ((2 * k * ScoreSpan + steps) \div (2 * steps)) + ScoreBase

\* leadScore: Math.floor(Math.random() * 30) + 70
LeadScore(k, steps) == FloorRandomTimes(k, steps, ScoreSpan) + ScoreBase

\* how the discovery of a page ends in terms of PhaseOutcomes
DiscoveryOutcome(v, page) ==
    IF v = "rest" THEN "simulated"
    ELSE IF page = "unreachable" THEN "fallback" ELSE "real"

\* the object analyzeHealthcareWebsite / scrapeHealthcareWebsite returns
Payload(v, d, score) ==
    [url |-> d.url,
     company |-> IF v = "mcp" /\ d.page = "titled" THEN <<"title", d.url>>
                 ELSE extractCompanyFromDomain(HostOf(d.url)),
     contactName |-> <<"Dr.", d.firstName, d.lastName>>,
     leadScore |-> score,
     leadSource |-> Tag(v, "discover", DiscoveryOutcome(v, d.page))]

\* The discovery of a Target is called; the payloads of earlier calls are
\* with their callers. (The REST variant never looks at a page.)
AnalyzeCall(u, page) ==
    /\ discovery.pc = "idle"
    /\ variant = "rest" => page = "unreachable"
    /\ discovery' = [NoDiscovery EXCEPT !.pc = "firstName", !.url = u, !.page = page]
    /\ UNCHANGED <<variant, mcpClients, client, req, hist, server, names>>

\* A second discovery is called while the payload of the first is kept
\* for comparison.
AnalyzeAgain(u, page) ==
    /\ discovery.pc = "idle"
    /\ Len(discovery.returned) = 1
    /\ variant = "rest" => page = "unreachable"
    /\ discovery' = [discovery EXCEPT !.pc = "firstName", !.url = u, !.page = page]
    /\ UNCHANGED <<variant, mcpClients, client, req, hist, server, names>>

\* firstNames[Math.floor(Math.random() * firstNames.length)]
DrawFirstName(k, steps) ==
    /\ discovery.pc = "firstName"
    /\ discovery' = [discovery EXCEPT
                       !.firstName = FloorRandomTimes(k, steps, NumNames(variant)),
                       !.pc = "lastName"]
    /\ UNCHANGED <<variant, mcpClients, client, req, hist, server, names>>

\* lastNames[Math.floor(Math.random() * lastNames.length)]
DrawLastName(k, steps) ==
    /\ discovery.pc = "lastName"
    /\ discovery' = [discovery EXCEPT
                       !.lastName = FloorRandomTimes(k, steps, NumNames(variant)),
                       !.pc = "leadScore"]
    /\ UNCHANGED <<variant, mcpClients, client, req, hist, server, names>>

\* the lead score is drawn and the payload is returned
DrawLeadScore(k, steps) ==
    /\ discovery.pc = "leadScore"
    /\ discovery' = [NoDiscovery EXCEPT
                       !.returned = Append(discovery.returned,
                                           Payload(variant, discovery, LeadScore(k, steps)))]
    /\ UNCHANGED <<variant, mcpClients, client, req, hist, server, names>>

\* one discovery at a time, Math.random() at the fine resolution
NextLeadScore ==
    \/ \E u \in 1..NumTargets, page \in Pages : AnalyzeCall(u, page)
    \/ \E k \in 0..(FineSteps - 1) : DrawFirstName(k, FineSteps)
    \/ \E k \in 0..(FineSteps - 1) : DrawLastName(k, FineSteps)
    \/ \E k \in 0..(FineSteps - 1) : DrawLeadScore(k, FineSteps)

SpecLeadScore == Init /\ [][NextLeadScore]_vars

\* two discoveries one after the other, Math.random() at the coarse resolution
NextTwoDiscoveries ==
    \/ \E u \in 1..NumTargets, page \in Pages : AnalyzeCall(u, page)
    \/ \E u \in 1..NumTargets, page \in Pages : AnalyzeAgain(u, page)
    \/ \E k \in 0..(CoarseSteps - 1) : DrawFirstName(k, CoarseSteps)
    \/ \E k \in 0..(CoarseSteps - 1) : DrawLastName(k, CoarseSteps)
    \/ \E k \in 0..(CoarseSteps - 1) : DrawLeadScore(k, CoarseSteps)

SpecTwoDiscoveries == Init /\ [][NextTwoDiscoveries]_vars

----------------------------------------------------------------------------
(* The process starts *)

\* new Agent(): express(), the middleware and the routes are set up
Construct ==
    /\ server.pc = "start"
    /\ server' = [server EXCEPT !.pc = "constructing"]
    /\ UNCHANGED <<variant, mcpClients, client, req, hist, discovery, names>>

\* the constructor reads its next variable: it keeps the value, or
\* throwMissingEnvError throws an Error that names the variable; nothing
\* catches it and the process ends
ReadEnv ==
    /\ server.pc = "constructing"
    /\ server.read < Len(Required(variant))
    /\ LET x == Required(variant)[server.read + 1] IN
       server' = IF Falsy(server.env[x])
                 THEN [server EXCEPT !.pc = "crashed", !.error = x]
                 ELSE [server EXCEPT !.read = @ + 1]
    /\ UNCHANGED <<variant, mcpClients, client, req, hist, discovery, names>>

\* the constructor returns; agent.start() calls app.listen
Start ==
    /\ server.pc = "constructing"
    /\ server.read = Len(Required(variant))
    /\ server' = [server EXCEPT !.pc = "listening"]
    /\ UNCHANGED <<variant, mcpClients, client, req, hist, discovery, names>>

\* a process is started in any environment
InitStart ==
    /\ variant \in Variants
    /\ mcpClients = [p \in Providers |-> 0]
    /\ client = [r \in Reqs |-> [p \in Providers |-> "none"]]
    /\ req = [r \in Reqs |-> IdleFrame]
    /\ hist = [r \in Reqs |-> NoHist]
    /\ discovery = NoDiscovery
    /\ names = NoNames
    /\ server \in [env : [EnvVars -> EnvValues], pc : {"start"}, read : {0}, error : {"none"},
                 now : {0}]

NextStart == Construct \/ ReadEnv \/ Start

SpecStart == InitStart /\ [][NextStart]_vars

----------------------------------------------------------------------------
(* The name helpers are called *)

\* the hosts the helpers are called with: the hosts of the targets, the host
\* "www.example-clinic.co.uk", and every host made of one of the heads, a
\* middle part of up to MaxBodyLen characters and one of the tails
ExampleHost == <<"w", "w", "w", ".", "e", "x", "a", "m", "p", "l", "e", "-", "c", "l", "i", "n", "i", "c", ".", "c", "o", ".", "u", "k">>
HostHeads == {<<>>, <<"w", "w", "w", ".">>, <<"w", "w", "w", ".", "w", "w", "w", ".">>}
HostTails == {<<>>, <<".", "c", "o", "m">>, <<".", "c", "o", ".", "u", "k">>, <<".", "o", "r", "g">>, <<".", "n", "e", "t">>, <<".", "i", "o">>, <<".", "n", "e", "t", ".", "c", "o", "m">>}
BodyChars == {"a", "w", "-", "."}

RECURSIVE Bodies(_)
Bodies(n) ==
    IF n = 0 THEN {<<>>}
    ELSE Bodies(n - 1) \cup {Append(b, c) : b \in {x \in Bodies(n - 1) : Len(x) = n - 1},
                                             c \in BodyChars}

Hosts ==
    {ExampleHost} \cup {TargetHosts[k] : k \in 1..Len(TargetHosts)}
        \cup {h \o b \o t : h \in HostHeads, b \in Bodies(MaxBodyLen), t \in HostTails}

\* extractCompanyFromDomain is called with a host
ExtractCompany(h) ==
    /\ names.calls = 0
    /\ names' = [NoNames EXCEPT !.host = h, !.calls = 1,
                                !.company = extractCompanyFromDomain(h)]
    /\ UNCHANGED <<variant, mcpClients, client, req, hist, discovery, server>>

\* it is called once more with the same host
ExtractCompanyAgain ==
    /\ names.calls = 1
    /\ names' = [names EXCEPT !.calls = 2, !.again = extractCompanyFromDomain(names.host)]
    /\ UNCHANGED <<variant, mcpClients, client, req, hist, discovery, server>>

NextNames ==
    \/ \E h \in Hosts : ExtractCompany(h)
    \/ ExtractCompanyAgain

SpecNames == Init /\ [][NextNames]_vars

\* the hosts generatePracticeId is called with: those above, and hosts of any
\* length up to MaxPad + MaxBodyLen before their tail, with upper case
\* letters, digits and characters outside [a-z0-9] in them
IdChars == {"a", "A", "1", "-", ".", "_"}

RECURSIVE IdBodies(_)
IdBodies(n) ==
    IF n = 0 THEN {<<>>}
    ELSE IdBodies(n - 1) \cup {Append(b, c) : b \in {x \in IdBodies(n - 1) : Len(x) = n - 1},
                                               c \in IdChars}

Pad(k) == [j \in 1..k |-> "a"]

\* lengths of the run of letters before the body: none, and those that bring
\* the host to the length where substring cuts
PadLengths == {0} \cup ((MaxIdLen - MaxBodyLen - 1)..MaxPad)

IdHosts ==
    Hosts \cup {h \o Pad(k) \o b \o t : h \in {<<>>, <<"w", "w", "w", ".">>}, k \in PadLengths,
                                         b \in IdBodies(MaxBodyLen), t \in HostTails}

\* generatePracticeId is called with a host
GeneratePracticeId(h) ==
    /\ names.calls = 0
    /\ names' = [NoNames EXCEPT !.host = h, !.calls = 1, !.practiceId = generatePracticeId(h)]
    /\ UNCHANGED <<variant, mcpClients, client, req, hist, discovery, server>>

NextPracticeId == \E h \in IdHosts : GeneratePracticeId(h)

\* faulty variant: the fallback return has a URL of its own
DemoUrl_FallbackMarked(v, o, practiceId) ==
    <<"https://">> \o practiceId \o
    <<IF o = "fallback" THEN "-fallback.up.railway.app"
      ELSE IF v = "mcp" THEN "-mcp-demo-production.up.railway.app"
      ELSE "-service-production.up.railway.app">>

\* the url of the deployment result, which the record takes as its demoUrl.
\* deployToRailwayMCP builds it on its real return and on its fallback
\* return, deployToRailway before its simulated deployment.
DemoUrl(v, o, practiceId) ==
    <<"https://">> \o practiceId \o
    <<IF v = "mcp" THEN "-mcp-demo-production.up.railway.app"
      ELSE "-service-production.up.railway.app">>

\* hosts of a second Target: the listed ones, and some that reduce to the
\* practice id "a"
PairHosts ==
    {TargetHosts[k] : k \in 1..Len(TargetHosts)}
        \cup {<<"a", ".", "c", "o", "m">>, <<"w", "w", "w", ".", "a", ".", "n", "e", "t">>,
              <<"A">>, <<"-", "a", ".", "o", "r", "g">>}

\* the discovery and deployment phases of a Target with host h: the practice
\* id is taken from the host, the deployment returns by outcome o
Deploy(h, o) ==
    /\ o \in PhaseOutcomes(variant, "deploy", TRUE, 1, "array")
    /\ names' = [names EXCEPT !.deploys =
                    Append(@, [host |-> h, practiceId |-> generatePracticeId(h), method |-> o,
                               demoUrl |-> DemoUrl(variant, o, generatePracticeId(h))])]
    /\ UNCHANGED <<variant, mcpClients, client, req, hist, discovery, server>>

DeployFirst(h, o) == names.deploys = <<>> /\ Deploy(h, o)
DeploySecond(h, o) == Len(names.deploys) = 1 /\ Deploy(h, o)

NextDemoUrl ==
    \/ \E h \in Hosts, o \in {"real", "fallback", "simulated"} : DeployFirst(h, o)
    \/ \E h \in PairHosts, o \in {"real", "fallback", "simulated"} : DeploySecond(h, o)

SpecDemoUrl == Init /\ [][NextDemoUrl]_vars

----------------------------------------------------------------------------
(* The voice and storage phase functions of the MCP variant in detail, as
   /test-elevenlabs and /test-notion call them *)

\* what the direct ElevenLabs API does: voices and audio returned; an empty
\* voice list; no audio; a call (or writing the file) throws
ApiBehaviours == {"audio", "noVoices", "noAudio", "error"}

\* what the Notion session answers to create-page: a reply with text, a
\* reply without, an error
NotionAnswers == {"text", "empty", "error"}

\* faulty variant: the direct API is used only with an elevenlabs session
createVoiceAgentMCP_ViaSession(session, api, services) ==
    IF services # "array" THEN "TypeError"
    ELSE IF session /\ api = "audio" THEN "elevenlabs_direct_api"
    ELSE "fallback_enhanced"

\* createVoiceAgentMCP: the method of the result it returns, or the error it
\* raises. session says whether this.mcpClients.elevenlabs is set; the
\* function does not read it.
createVoiceAgentMCP(session, api, services) ==
    IF services # "array" THEN "TypeError"
    ELSE IF api = "audio" THEN "elevenlabs_direct_api"
    ELSE "fallback_enhanced"

\* storeLeadInNotionMCP: the method of the result it returns
storeLeadInNotionMCP(session, answer) ==
    IF session /\ answer = "text" THEN "notion-mcp" ELSE "fallback"

\* /test-elevenlabs: real_voice_creation: voiceAgent.method === 'elevenlabs-mcp'
RealVoiceCreation(method) == method = "elevenlabs-mcp"

\* /test-notion: real_notion_storage: notionStorage.method === 'notion-mcp'
RealNotionStorage(method) == method = "notion-mcp"

VoiceCall(session, api, services) ==
    /\ variant = "mcp"
    /\ Len(names.voices) + Len(names.stores) < MaxCalls
    /\ LET m == createVoiceAgentMCP(session, api, services) IN
       names' = [names EXCEPT !.voices =
                    Append(@, [session |-> session, api |-> api, services |-> services,
                               method |-> m, realVoiceCreation |-> RealVoiceCreation(m)])]
    /\ UNCHANGED <<variant, mcpClients, client, req, hist, discovery, server>>

StoreCall(session, answer) ==
    /\ variant = "mcp"
    /\ Len(names.voices) + Len(names.stores) < MaxCalls
    /\ LET m == storeLeadInNotionMCP(session, answer) IN
       names' = [names EXCEPT !.stores =
                    Append(@, [session |-> session, answer |-> answer,
                               method |-> m, realNotionStorage |-> RealNotionStorage(m)])]
    /\ UNCHANGED <<variant, mcpClients, client, req, hist, discovery, server>>

NextPhaseCalls ==
    \/ \E session \in BOOLEAN, api \in ApiBehaviours, services \in {"array", "other"} :
          VoiceCall(session, api, services)
    \/ \E session \in BOOLEAN, answer \in NotionAnswers : StoreCall(session, answer)

SpecPhaseCalls == InitConc /\ [][NextPhaseCalls]_vars

SpecPracticeId == Init /\ [][NextPracticeId]_vars

----------------------------------------------------------------------------
(* Properties *)

Batch(r) == req[r].kind = "create-leads"
InTargets(r) == req[r].pc \in {"loop", "pipeline", "sleeping"}
Records(r) == {req[r].results[j] : j \in 1..Len(req[r].results)}
IsPrefix(s, t) == Len(s) <= Len(t) /\ s = SubSeq(t, 1, Len(s))
InFive(ph) == ph \in FivePhases

\* C1: with every provider unavailable (no session connected, every provider
\* call failing), a finished batch of count 1 has successful=1 and failed=0,
\* its record has status 'success' and every phase output is a fallback.
C1_AllUnavailableStillSucceeds ==
    \A r \in Reqs :
        (variant = "mcp" /\ Batch(r) /\ req[r].pc = "done" /\ req[r].count = 1
            /\ ~hist[r].provOk)
        => /\ Successful(req[r].results) = 1
           /\ Failed(req[r].results) = 0
           /\ Len(req[r].results) = 1
           /\ req[r].results[1].status = "success"
           /\ \A j \in 1..Len(req[r].run.prov) : req[r].run.prov[j] = "fallback"

\* C2: a provider error in any of the five phases is absorbed inside the
\* phase: no LeadRecord is 'failed' because a provider call failed.
C2_ProviderErrorsAbsorbed ==
    \A r \in Reqs : \A rec \in Records(r) :
        rec.status = "failed" => rec.fault # "provider"

C4_BatchOwnsItsSessions ==
    \A p \in Providers :
        (Batch(1) /\ InTargets(1) /\ client[1][p] # "none")
        => (client[1][p] = "open" /\ mcpClients[p] = 1)

\* C5: once a batch has started connecting, disconnectAllMCPs is eventually
\* run for it, whether its Targets succeed or fail.
C5_DisconnectEventuallyRuns ==
    (variant = "mcp" /\ Batch(1) /\ req[1].pc = "connecting")
        ~> (req[1].disconnects >= 1)

C5_Witness ==
    /\ variant = "mcp" /\ Batch(1) /\ req[1].pc = "done"
    /\ req[1].disconnects = 1
    /\ Len(req[1].results) = 2
    /\ req[1].results[1].status = "failed"
    /\ req[1].results[2].status = "success"

\* C6: in one batch connectAllMCPs is invoked once, before the first phase of
\* the first Target, and disconnectAllMCPs once, after the last Target's
\* record has been appended; neither is invoked between two Targets.
C6_SessionsBracketTheBatch ==
    \A r \in Reqs :
        (variant = "mcp" /\ Batch(r)) =>
            /\ req[r].pc = "connecting" =>
                   /\ hist[r].connects = 1 /\ req[r].disconnects = 0
                   /\ hist[r].attempted = <<>>
            /\ InTargets(r) => (hist[r].connects = 1 /\ req[r].disconnects = 0)
            /\ req[r].pc \in {"disconnecting", "done"} =>
                   /\ hist[r].connects = 1 /\ req[r].disconnects = 1
                   /\ Len(req[r].results) = Len(req[r].selectedUrls)

C6_Witness ==
    /\ variant = "mcp" /\ Batch(1) /\ req[1].pc = "done"
    /\ Len(req[1].results) = 2
    /\ hist[1].connects = 1 /\ req[1].disconnects = 1

\* C7: every LeadRecord a caller can see has status 'success' or 'failed'; a
\* successful one carries every phase output, a failed one none (and an error);
\* a batch of count 1 returns exactly one record.
C7_EveryRecordIsTerminal ==
    \A r \in Reqs :
        /\ \A rec \in Records(r) :
               /\ rec.status \in {"success", "failed"}
               /\ rec.status = "success" => (rec.outputs = AllOutputs /\ ~rec.error)
               /\ rec.status = "failed" => (rec.outputs = {} /\ rec.error)
        /\ (Batch(r) /\ req[r].pc = "done" /\ req[r].count = 1) =>
               (Len(req[r].results) = 1 /\ req[r].response.records = 1)

C7_Witness ==
    /\ Batch(1) /\ req[1].pc = "done" /\ req[1].count = 1
    /\ Len(req[1].results) = 1
    /\ req[1].results[1].status = "failed"
    /\ req[1].results[1].returned # {}

\* C8: a failed Target never aborts the batch: the Targets are attempted in
\* order, every selected Target has been attempted when the loop is left, and
\* the batch answers with one record per selected Target.
C8_FailureDoesNotAbortBatch ==
    \A r \in Reqs :
        Batch(r) =>
            /\ IsPrefix(hist[r].attempted, req[r].selectedUrls)
            /\ req[r].pc \in {"disconnecting", "done"} =>
                   /\ hist[r].attempted = req[r].selectedUrls
                   /\ Len(req[r].results) = Len(req[r].selectedUrls)
            /\ req[r].pc = "done" =>
                   /\ req[r].response.code = 200
                   /\ req[r].response.records = Len(req[r].selectedUrls)

C8_Witness ==
    /\ Batch(1) /\ req[1].pc = "done"
    /\ Len(req[1].results) = 2
    /\ req[1].results[1].status = "failed"
    /\ hist[1].attempted = <<1, 2>>
    /\ req[1].response.code = 200

\* C9: a fault raised in a phase is turned into a 'failed' LeadRecord by
\* processHealthcareWebsite itself; nothing is raised to the batch loop, whose
\* own catch branch is never entered.
C9_FaultsCaughtByExecutor ==
    \A r \in Reqs :
        /\ hist[r].loopCatch = 0
        /\ \A rec \in Records(r) :
               rec.fault # "none" => (rec.status = "failed" /\ rec.leadId /\ rec.duration)

C9_Witness ==
    \E r \in Reqs : \E rec \in Records(r) : rec.fault = "internal" /\ rec.status = "failed"

\* C10: a LeadRecord is 'success' only if each of the five phases of its run
\* returned a result.
C10_SuccessNeedsAllFivePhases ==
    \A r \in Reqs : \A rec \in Records(r) :
        rec.status = "success" => (FivePhases \subseteq rec.returned /\ rec.fault = "none")

C10_Witness ==
    \E r \in Reqs : \E rec \in Records(r) :
        rec.status = "success" /\ FivePhases \subseteq rec.returned

\* C11: when a phase of a run has thrown, the run is over at once: the
\* failing phase is the last one called for that Target, nothing is in
\* progress, and no further call (a later phase, or one that would undo a
\* completed phase) is made: the results of the completed phases stay as
\* they were and the record lists them as returned.
C11_FaultAbortsTheRun ==
    \A r \in Reqs :
        LET run == req[r].run IN
        /\ run.fault # "none" =>
               /\ run.inProgress = {}
               /\ Len(run.trace) = run.idx + 1
               /\ Len(run.prov) = run.idx
               /\ run.trace = SubSeq(run.order, 1, run.idx + 1)
        /\ \A rec \in Records(r) :
               rec.fault # "none" =>
                   \E k \in 0..5 : rec.returned = {PhaseOrder(variant)[j] : j \in 1..k}

C11_Witness ==
    \E r \in Reqs :
        /\ Batch(r) /\ req[r].run.fault # "none"
        /\ req[r].run.idx >= 1
        /\ Len(req[r].run.trace) < Len(req[r].run.order)
        /\ req[r].pc \in {"sleeping", "loop", "done"}

C13_ResultsInTargetOrder ==
    \A r \in Reqs :
        Batch(r) =>
            /\ Len(req[r].results) <= Len(req[r].selectedUrls)
            /\ \A j \in 1..Len(req[r].results) :
                   /\ req[r].results[j].url = req[r].selectedUrls[j]
                   /\ req[r].results[j].url = healthcareTargets[j]

C13_Witness ==
    /\ Batch(1) /\ req[1].pc = "done" /\ req[1].count = 3
    /\ [j \in 1..3 |-> req[1].results[j].url] = <<1, 2, 3>>
    /\ [j \in 1..3 |-> req[1].results[j].status] = <<"failed", "success", "failed">>

C15_CountBoundsTheBatch ==
    \A r \in Reqs :
        Batch(r) =>
            /\ Len(req[r].selectedUrls) = Min(Max(req[r].count, 0), Len(healthcareTargets))
            /\ req[r].pc = "done" =>
                   req[r].response.records <= Max(req[r].count, 0)

\* C16: when a batch is over, its successful and failed records add up to
\* the records of the result list, one per selected Target, and 'completed'
\* in the response is the number of records with status 'success'.
C16_SummaryCountsAddUp ==
    \A r \in Reqs :
        (Batch(r) /\ req[r].pc = "done") =>
            /\ Successful(req[r].results) + Failed(req[r].results) = Len(req[r].results)
            /\ Len(req[r].results) = Len(req[r].selectedUrls)
            /\ req[r].response.records = Len(req[r].results)
            /\ req[r].response.completed =
                   Cardinality({j \in 1..Len(req[r].results) :
                                   req[r].results[j].status = "success"})

C16_Witness ==
    /\ Batch(1) /\ req[1].pc = "done"
    /\ Len(req[1].results) = 3
    /\ req[1].response.completed = 1
    /\ Failed(req[1].results) = 2

\* C17: within one batch the Targets are run one at a time: while a Target's
\* run is going on, the records of all the Targets before it (and no other)
\* are in the result list, at most one phase is in progress, and outside a
\* run no phase is in progress and every Target attempted has its record.
C17_OneTargetAtATime ==
    \A r \in Reqs :
        Batch(r) =>
            LET f == req[r] IN
            /\ Cardinality(f.run.inProgress) <= 1
            /\ f.pc = "pipeline" =>
                   /\ Len(hist[r].attempted) = Len(f.results) + 1
                   /\ f.run.url = f.selectedUrls[Len(f.results) + 1]
                   /\ hist[r].attempted[Len(hist[r].attempted)] = f.run.url
            /\ f.pc # "pipeline" =>
                   /\ Len(hist[r].attempted) = Len(f.results)
                   /\ f.run.inProgress = {}

C17_Witness ==
    /\ Batch(1) /\ req[1].pc = "pipeline"
    /\ Len(req[1].results) = 1
    /\ req[1].run.url = 2
    /\ req[1].run.inProgress = {"discover"}

\* C18: the provenance tag of every phase result is truthful: a result is
\* tagged as the real provider's only if the provider call was made and
\* answered with a usable payload, and a result synthesized locally (a
\* fallback or a simulation) is tagged as fallback.
C18_ProvenanceTagsTruthful ==
    \A r \in Reqs :
        LET run == req[r].run IN
        \A j \in 1..Len(run.prov) :
            InFive(run.order[j]) =>
                /\ Tag(variant, run.order[j], run.prov[j]) = "real" => run.prov[j] = "real"
                /\ run.prov[j] \in {"fallback", "simulated"} =>
                       Tag(variant, run.order[j], run.prov[j]) = "fallback"

\* C19: the fallback discovery payload is a function of the Target: two
\* fallback discoveries of the same Target return the same company, the same
\* contact name and the same lead score.
C19_FallbackDiscoveryDeterministic ==
    \A i, j \in 1..Len(discovery.returned) :
        LET a == discovery.returned[i]
            b == discovery.returned[j]
        IN  (a.url = b.url /\ a.leadSource = "fallback" /\ b.leadSource = "fallback")
            => (a.company = b.company /\ a.contactName = b.contactName
                    /\ a.leadScore = b.leadScore)

C21_PracticeNameDerivation ==
    names.calls >= 1 =>
        LET h == names.host
            a == IF Len(h) >= 4 /\ SubSeq(h, 1, 4) = <<"w", "w", "w", ".">> THEN SubSeq(h, 5, Len(h)) ELSE h
            n == Len(a)
            cut == IF n >= 6 /\ SubSeq(a, n - 5, n) = <<".", "c", "o", ".", "u", "k">> THEN 6
                   ELSE IF n >= 4 /\ SubSeq(a, n - 3, n) \in {<<".", "c", "o", "m">>, <<".", "o", "r", "g">>, <<".", "n", "e", "t">>} THEN 4
                   ELSE 0
            core == SubSeq(a, 1, n - cut)
            expected == [k \in 1..Len(core) |->
                            IF core[k] \in {"-", "."} THEN " "
                            ELSE IF k = 1 \/ core[k - 1] \in {"-", "."}
                                 THEN ToUpperCase(core[k])
                                 ELSE core[k]] \o <<" ", "C", "l", "i", "n", "i", "c">>
        IN  /\ names.company = expected
            /\ h = ExampleHost => names.company = <<"E", "x", "a", "m", "p", "l", "e", " ", "C", "l", "i", "n", "i", "c", " ", "C", "l", "i", "n", "i", "c">>
            /\ names.calls = 2 => names.again = names.company

C21_Witness ==
    /\ names.calls = 2
    /\ names.host = ExampleHost
    /\ names.again = <<"E", "x", "a", "m", "p", "l", "e", " ", "C", "l", "i", "n", "i", "c", " ", "C", "l", "i", "n", "i", "c">>

\* C24: the process listens only if every variable its constructor requires
\* is set to a non-empty value; if one is absent or empty, the constructor
\* throws an Error naming the first such variable in its reading order, every
\* variable before it being set, and the process never listens.
C24_ListeningNeedsEveryVariable ==
    LET R == Required(variant)
        missing == {k \in 1..Len(R) : server.env[R[k]] # "set"}
    IN  /\ server.pc = "listening" => missing = {}
        /\ server.pc = "crashed" =>
               /\ missing # {}
               /\ \E k \in missing : R[k] = server.error /\ \A j \in missing : k <= j
        /\ (missing # {} /\ server.pc = "constructing") => server.read < Len(R)

C24_Witness ==
    /\ variant = "mcp"
    /\ server.pc = "crashed"
    /\ server.error = "NOTION_DATABASE_ID"
    /\ server.env["NOTION_DATABASE_ID"] = "empty"
    /\ server.env["ELEVENLABS_API_KEY"] = "absent"

\* C22: a batch that has started runs to completion, given that every
\* provider call, connect, close and delay it awaits settles: it eventually
\* answers with one LeadRecord per selected Target, its sessions released.
C22_BatchRunsToCompletion ==
    (Batch(1) /\ req[1].pc # "idle")
        ~> /\ req[1].pc = "done"
           /\ Len(req[1].results) = Len(req[1].selectedUrls)
           /\ req[1].response.records = Len(req[1].selectedUrls)
           /\ variant = "mcp" => req[1].disconnects = 1

C22_Witness ==
    /\ variant = "mcp" /\ Batch(1) /\ req[1].pc = "done"
    /\ Len(req[1].selectedUrls) = 3
    /\ req[1].response.records = 3
    /\ req[1].disconnects = 1
    /\ Failed(req[1].results) = 3

\* C23: whenever a pipeline run ends with status 'success', the lead's
\* Notion page exists and holds the demo URL and the voice agent id.
C23_SuccessMeansCrmUpdated ==
    \A r \in Reqs :
        LET run == req[r].run IN
        (Batch(r) /\ run.order # <<>> /\ run.fault = "none" /\ run.idx = Len(run.order))
        => UNION {CrmWrites(variant, run.order[j], run.prov[j]) : j \in 1..run.idx}
               = {"page", "demoUrl", "agentId"}

\* C25: when a batch has returned, close() has been called on every client
\* whose connect completed during the batch, the ElevenLabs candidates whose
\* connect completed after their timer fired included.
C25_ConnectedSessionsClosed ==
    (Batch(1) /\ req[1].pc = "done") =>
        /\ \A p \in Providers : client[1][p] # "open"
        /\ req[1].elLate = {}

\* C28: connectElevenLabsMCP tries its candidates in the order of its list,
\* the next one only after the previous one lost its race; while it runs no
\* client is stored; once it has returned it tries nothing more; it returns
\* true with the client of the last candidate tried stored as the elevenlabs
\* entry, and false only with all three tried and the entry unset.
C28_ElevenLabsCandidatesInOrder ==
    /\ [](req[1].pc = "connecting" =>
            LET f == req[1] IN
            /\ Len(f.elTried) >= 1
            /\ f.elTried = SubSeq(ElevenLabsProviders, 1, Len(f.elTried))
            /\ ("elevenlabs" \in f.pending) = (f.elReturn = "none")
            /\ f.elReturn = "none" =>
                   /\ mcpClients["elevenlabs"] = 0
                   /\ client[1]["elevenlabs"] = "none"
                   /\ f.elTry = Len(f.elTried) - 1
            /\ f.elReturn = "true" =>
                   /\ mcpClients["elevenlabs"] = 1
                   /\ client[1]["elevenlabs"] = "open"
                   /\ "elevenlabs" \in f.connOk
            /\ f.elReturn = "false" =>
                   /\ f.elTried = ElevenLabsProviders
                   /\ mcpClients["elevenlabs"] = 0
                   /\ client[1]["elevenlabs"] = "none"
                   /\ "elevenlabs" \notin f.connOk)
    /\ [][(req[1].pc = "connecting" /\ req'[1].pc = "connecting") =>
            /\ req[1].elReturn # "none" =>
                   /\ req'[1].elReturn = req[1].elReturn
                   /\ req'[1].elTried = req[1].elTried
            /\ req'[1].elTried # req[1].elTried =>
                   /\ req'[1].elTried = Append(req[1].elTried, ElevenLabsProviders[Len(req[1].elTried) + 1])
                   /\ req'[1].elReturn = "none"]_vars

C28_Witness ==
    /\ req[1].pc = "connecting"
    /\ req[1].elReturn = "true"
    /\ req[1].elTried = SubSeq(ElevenLabsProviders, 1, 2)
    /\ req[1].elAbandoned = {ElevenLabsProviders[1]}
    /\ mcpClients["elevenlabs"] = 1

\* C29: disconnectAllMCPs calls close() on every client that was in the map
\* when it started, whether or not an earlier close() threw; the handler
\* then answers as it would have, and the map is empty.
C29_DisconnectClosesEveryClient ==
    /\ req[1].pc = "disconnecting" =>
           \A p \in Providers :
               /\ req[1].snap[p] # 0 =>
                      /\ req[1].snap[p] = mcpClients[p]
                      /\ client[req[1].snap[p]][p] = "open"
               /\ (req[1].snap[p] = 0 /\ mcpClients[p] # 0) =>
                      client[mcpClients[p]][p] \in {"closed", "closeFailed"}
    /\ (req[1].pc = "done" /\ req[1].disconnects >= 1) =>
           /\ \A p \in Providers :
                  /\ mcpClients[p] = 0
                  /\ client[1][p] \in {"none", "closed", "closeFailed"}
           /\ Batch(1) => req[1].response = BatchResponse(req[1].results)

C29_Witness ==
    /\ Batch(1) /\ req[1].pc = "done"
    /\ client[1]["playwright"] = "closeFailed"
    /\ client[1]["notion"] = "closed"
    /\ client[1]["railway"] = "closeFailed"
    /\ req[1].response.code = 200
    /\ \A p \in Providers : mcpClients[p] = 0

\* C26: connectAllMCPs never raises and never stops short: each connect
\* settles on its own, a failed one leaving the others pending or connected;
\* it returns only when all four have settled, and true exactly when at
\* least one connected (a test endpoint answers 503 exactly on false); the
\* batch goes on to its Target loop whatever it returns and ends with one
\* record per selected Target.
C26_ConnectAllNeverStopsTheBatch ==
    /\ []((Batch(1) /\ req[1].pc = "done") => Len(req[1].results) = Len(req[1].selectedUrls))
    /\ [][req[1].pc = "connecting" =>
            /\ req'[1].pc = "connecting" =>
                   /\ req'[1].pending \subseteq req[1].pending
                   /\ Cardinality(req[1].pending \ req'[1].pending) <= 1
                   /\ req[1].connOk \subseteq req'[1].connOk
                   /\ Cardinality(req'[1].connOk \ req[1].connOk) <= 1
            /\ req'[1].pc # "connecting" =>
                   /\ req[1].pending = {}
                   /\ hist'[1].loopCatch = hist[1].loopCatch
                   /\ Batch(1) => req'[1].pc = "loop" /\ req'[1].i = 0 /\ req'[1].results = <<>>
                   /\ ~Batch(1) => /\ (req'[1].response.code = 503) = (req[1].connOk = {})
                                   /\ (req'[1].pc = "pipeline") = (req[1].connOk # {})]_vars

C26_Witness ==
    /\ variant = "mcp" /\ Batch(1) /\ req[1].pc = "done"
    /\ hist[1].connects = 1
    /\ \A p \in Providers : client[1][p] = "none"
    /\ Len(req[1].selectedUrls) = NumTargets
    /\ Len(req[1].results) = NumTargets

\* C30: with two overlapping requests that each call connectAllMCPs, once
\* both have answered close() has been called on every client either of
\* them connected.
C30_OverlappingRequestsCloseEveryClient ==
    (\A r \in Reqs : req[r].pc = "done") =>
        \A r \in Reqs, p \in Providers : client[r][p] # "open"

\* C27: in the MCP variant no pipeline run ends in an error raised by the
\* deployment, voice or storage phase, or by the discovery phase of a
\* parseable URL, whatever the providers do.
C27_FallbackWrappedPhasesNeverRaise ==
    \A r \in Reqs :
        LET run == req[r].run IN
        (variant = "mcp" /\ run.fault # "none" /\ run.trace # <<>>) =>
            LET ph == run.trace[Len(run.trace)] IN
            /\ ph \notin {"deploy", "voice", "store"}
            /\ ph = "discover" => ~Parseable(run.url)

\* C31: whenever no request is in flight the session map is empty, and a
\* /test-playwright request that arrives while no other request is in flight
\* is answered 503 at once, without a connect and without a website analysis.
C31_IdleServerHasNoSessions ==
    /\ []((\A r \in Reqs : req[r].pc \in {"idle", "done"}) =>
              \A p \in Providers : mcpClients[p] = 0)
    /\ [][(/\ req[2].pc = "idle" /\ req'[2].pc # "idle"
            /\ req'[2].kind = "test-playwright"
            /\ req[1].pc \in {"idle", "done"}) =>
               /\ req'[2].pc = "done"
               /\ req'[2].response.code = 503
               /\ req'[2].run.trace = <<>>
               /\ hist'[2].connects = 0]_vars

C31_Witness ==
    /\ req[1].pc = "done" /\ Batch(1)
    /\ client[1]["playwright"] = "closed"
    /\ req[2].kind = "test-playwright" /\ req[2].pc = "done"
    /\ req[2].response.code = 503
    /\ hist[2].connects = 0
    /\ \A p \in Providers : client[2][p] = "none"

\* C32: POST /process-urls answers 400 and starts no pipeline run when urls
\* is missing or no array; otherwise it runs the pipeline once per entry, in
\* the order of the array, one at a time and with no delay, and answers with
\* one record per entry in that order, failed runs included.
C32_ProcessUrlsOnePerUrl ==
    LET f == req[1] IN
    f.kind = "process-urls" =>
        /\ f.urls # "array" =>
               /\ f.pc = "done" /\ f.response.code = 400
               /\ hist[1].attempted = <<>> /\ f.results = <<>> /\ f.run = NoRun
        /\ f.urls = "array" =>
               /\ f.response.code \in {0, 200}
               /\ hist[1].sleeps = 0
               /\ IsPrefix(hist[1].attempted, f.selectedUrls)
               /\ Len(f.results) <= Len(hist[1].attempted)
               /\ Len(hist[1].attempted) <= Len(f.results) + 1
               /\ \A j \in 1..Len(f.results) : f.results[j].url = f.selectedUrls[j]
               /\ f.pc = "done" =>
                      /\ f.response.code = 200
                      /\ hist[1].attempted = f.selectedUrls
                      /\ Len(f.results) = Len(f.selectedUrls)
                      /\ f.response.records = Len(f.selectedUrls)

C32_Witness ==
    /\ req[1].kind = "process-urls" /\ req[1].pc = "done"
    /\ req[1].selectedUrls = <<0, 1>>
    /\ req[1].response.code = 200
    /\ Len(req[1].results) = 2
    /\ req[1].results[1].status = "failed"
    /\ req[1].results[2].status = "success"

\* C37: for every host, the practice id has at most 25 characters, all of
\* them in [a-z0-9-], no two hyphens in a row, and no hyphen at its start or
\* at its end.
C37_PracticeIdWellFormed ==
    names.calls >= 1 =>
        LET id == names.practiceId IN
        /\ Len(id) <= MaxIdLen
        /\ \A k \in 1..Len(id) :
               \/ id[k] \in Digits \cup {"-"}
               \/ \E j \in 1..Len(LowerCase) : LowerCase[j] = id[k]
        /\ \A k \in 1..(Len(id) - 1) : ~(id[k] = "-" /\ id[k + 1] = "-")
        /\ id # <<>> => (id[1] # "-" /\ id[Len(id)] # "-")

\* C33: the demoUrl of a record depends on the practice id of its Target
\* alone (on a given server): two deployments with the same practice id have
\* the same demoUrl, whether the real provider or the fallback produced
\* them and whether or not the hosts are the same.
C33_DemoUrlFromPracticeIdOnly ==
    \A i, j \in 1..Len(names.deploys) :
        LET a == names.deploys[i]
            b == names.deploys[j]
        IN  /\ a.practiceId = generatePracticeId(a.host)
            /\ a.practiceId = b.practiceId => a.demoUrl = b.demoUrl
            /\ a.host = b.host => a.demoUrl = b.demoUrl

C33_Witness ==
    /\ variant = "mcp"
    /\ Len(names.deploys) = 2
    /\ names.deploys[1].host # names.deploys[2].host
    /\ names.deploys[1].practiceId = <<"a">>
    /\ names.deploys[2].practiceId = <<"a">>
    /\ names.deploys[1].method = "real"
    /\ names.deploys[2].method = "fallback"
    /\ names.deploys[1].demoUrl = names.deploys[2].demoUrl

C36_TestFlagsTellTheTruth ==
    /\ \A i \in 1..Len(names.voices) :
           names.voices[i].method # "TypeError" =>
               names.voices[i].realVoiceCreation = (names.voices[i].api = "audio")
    /\ \A i \in 1..Len(names.stores) :
           names.stores[i].realNotionStorage =
               (names.stores[i].session /\ names.stores[i].answer = "text")

\* C35: no two pipeline runs start at the same clock value, within one
\* batch, within one /process-urls request and across overlapping requests,
\* so no two records share a leadId.
C35_LeadIdsDistinct ==
    \A r1, r2 \in Reqs :
        \A i \in 1..Len(hist[r1].startedAt), j \in 1..Len(hist[r2].startedAt) :
            (r1 # r2 \/ i # j) => hist[r1].startedAt[i] # hist[r2].startedAt[j]

====
